---- MODULE Spec2Model ----
(***************************************************************************)
(* A model of player.py: the RandomVideoPlayer controller, its event loop, *)
(* the external mpv processes it owns, the storage it scans and the pure   *)
(* helpers (mount discovery, audio routing, selection).                     *)
(***************************************************************************)
EXTENDS Integers, Sequences, FiniteSets, TLC

(***************************************************************************)
(* Text.  A str is a sequence of one-character strings; a Path is the      *)
(* sequence of its components (pathlib's parts without the root).          *)
(***************************************************************************)

\* ord() of the characters the model's names are made of.
Ord(c) ==
    CASE c = "-" -> 45 [] c = "." -> 46 [] c = "/" -> 47
      [] c = "0" -> 48 [] c = "1" -> 49 [] c = "4" -> 52
      [] c = "C" -> 67 [] c = "K" -> 75 [] c = "M" -> 77 [] c = "P" -> 80
      [] c = "V" -> 86
      [] c = "a" -> 97 [] c = "b" -> 98 [] c = "c" -> 99 [] c = "d" -> 100
      [] c = "e" -> 101 [] c = "h" -> 104 [] c = "i" -> 105 [] c = "k" -> 107
      [] c = "l" -> 108 [] c = "m" -> 109 [] c = "n" -> 110 [] c = "o" -> 111
      [] c = "p" -> 112 [] c = "r" -> 114 [] c = "s" -> 115 [] c = "t" -> 116
      [] c = "u" -> 117 [] c = "v" -> 118 [] c = "x" -> 120

\* str.lower() on one character.
LowerChar(c) ==
    CASE c = "C" -> "c" [] c = "K" -> "k" [] c = "M" -> "m" [] c = "P" -> "p"
      [] c = "V" -> "v" [] OTHER -> c

\* str.lower()
Lower(s) == [i \in 1..Len(s) |-> LowerChar(s[i])]

\* str.strip(): leading and trailing whitespace removed
RECURSIVE LStrip(_)
LStrip(s) ==
    IF s # <<>> /\ Head(s) \in {" ", "\n", "\t"} THEN LStrip(Tail(s)) ELSE s

RECURSIVE RStrip(_)
RStrip(s) ==
    IF s # <<>> /\ s[Len(s)] \in {" ", "\n", "\t"}
      THEN RStrip(SubSeq(s, 1, Len(s) - 1))
      ELSE s

Strip(s) == RStrip(LStrip(s))

\* a < b for two str: Python compares code point by code point, a proper
\* prefix being smaller.
RECURSIVE StrLess(_, _)
StrLess(a, b) ==
    IF b = <<>> THEN FALSE
    ELSE IF a = <<>> THEN TRUE
    ELSE IF Ord(Head(a)) # Ord(Head(b)) THEN Ord(Head(a)) < Ord(Head(b))
    ELSE StrLess(Tail(a), Tail(b))

\* p < q for two Path: pathlib compares the component lists, component by
\* component, each component as a str.
RECURSIVE PathLess(_, _)
PathLess(p, q) ==
    IF q = <<>> THEN FALSE
    ELSE IF p = <<>> THEN TRUE
    ELSE IF Head(p) # Head(q) THEN StrLess(Head(p), Head(q))
    ELSE PathLess(Tail(p), Tail(q))

\* str(path) of an absolute Path: "/" + "/".join(parts)
RECURSIVE Str(_)
Str(p) ==
    IF p = <<>> THEN <<>>
    ELSE <<"/">> \o Head(p) \o Str(Tail(p))

\* s.startswith(prefix)
StartsWith(s, prefix) ==
    /\ Len(prefix) <= Len(s)
    /\ SubSeq(s, 1, Len(prefix)) = prefix

\* Path.suffix: the last component from its last dot on, "" when the dot is
\* missing, leads the name or ends it.
Suffix(p) ==
    LET name == p[Len(p)]
        dots == {i \in 1..Len(name) : name[i] = "."}
        last == CHOOSE i \in dots : \A j \in dots : j <= i
    IN  IF dots = {} THEN <<>>
        ELSE IF last = 1 \/ last = Len(name) THEN <<>>
        ELSE SubSeq(name, last, Len(name))

\* sorted(xs) for a list of Path (insertion sort; stable).
RECURSIVE InsertPath(_, _)
InsertPath(x, s) ==
    IF s = <<>> THEN <<x>>
    ELSE IF PathLess(x, Head(s)) THEN <<x>> \o s
    ELSE <<Head(s)>> \o InsertPath(x, Tail(s))

RECURSIVE SortedPaths(_)
SortedPaths(s) ==
    IF s = <<>> THEN <<>>
    ELSE InsertPath(s[Len(s)], SortedPaths(SubSeq(s, 1, Len(s) - 1)))

\* the elements of a list, as a set
Range(s) == {s[i] : i \in 1..Len(s)}

\* sorted(set(xs)) for a list of Path
RECURSIVE SortedPathSet(_)
SortedPathSet(S) ==
    IF S = {} THEN <<>>
    ELSE LET x == CHOOSE y \in S : \A z \in S : z = y \/ PathLess(y, z)
         IN  <<x>> \o SortedPathSet(S \ {x})

(***************************************************************************)
(* Program constants.                                                      *)
(***************************************************************************)

VIDEO_EXTENSIONS == {<<".", "m", "p", "4">>, <<".", "m", "k", "v">>}

USB_SCAN_ROOTS ==
    << <<<<"m", "e", "d", "i", "a">>>>,
       <<<<"r", "u", "n">>, <<"m", "e", "d", "i", "a">>>>,
       <<<<"m", "n", "t">>>> >>

\* the default of the USB_AUTOMOUNT_POINT environment variable
USB_AUTOMOUNT_POINT == <<<<"m", "n", "t">>, <<"u", "s", "b">>>>

\* the default of the USB_MOUNT_POINT environment variable
PREFERRED_USB_MOUNT_POINT == <<<<"m", "n", "t">>, <<"u", "s", "b">>>>

SUPPORTED_USB_FILESYSTEMS == {"vfat", "exfat", "ntfs", "ext4", "ext3", "ext2"}

\* the value None where a Path is expected
None == <<>>

(***************************************************************************)
(* Bounds of the model.                                                    *)
(***************************************************************************)

\* process ids the operating system can hand out at the same time
MaxProcs == 2

\* lines of a mount table given to mount discovery on its own
MaxLines == 3

\* comparisons with the scan deadline that can pass in one refresh
MaxBudget == 5

Pids == 1..MaxProcs

(***************************************************************************)
(* The storage the program looks at: the device nodes in /dev, the mount   *)
(* table (/proc/mounts, one record per line, in mount order) and the       *)
(* directory trees of the partitions.                                      *)
(***************************************************************************)

SDA1 == <<"s", "d", "a", "1">>
SDB1 == <<"s", "d", "b", "1">>

\* the partitions that can be plugged in
Partitions == {SDA1, SDB1}

\* str(device) for /dev/<name>
DevSource(name) == Str(<<<<"d", "e", "v">>, name>>)

\* the file system mount(8) finds on a partition
FsOf(name) == IF name = SDA1 THEN "vfat" ELSE "ext4"

\* os.scandir(dir) on a partition: the entries of the directory `rel` (a
\* path relative to the partition's root), in directory order.
Listing(name, rel) ==
    IF name = SDA1 /\ rel = <<>>
      THEN << [name |-> <<"a", ".", "m", "p", "4">>, kind |-> "file"],
              [name |-> <<"n", ".", "t", "x", "t">>, kind |-> "file"],
              [name |-> <<"b", ".", "m", "k", "v">>, kind |-> "file"] >>
    ELSE IF name = SDB1 /\ rel = <<>>
      THEN << [name |-> <<"v">>, kind |-> "dir"] >>
    ELSE IF name = SDB1 /\ rel = << <<"v">> >>
      THEN << [name |-> <<"c", ".", "M", "P", "4">>, kind |-> "file"] >>
    ELSE << >>

\* os.path.ismount(path): some line of the mount table mounts there
IsMount(mt, path) == \E i \in 1..Len(mt) : mt[i].mp = path

\* the partition whose tree is visible at a mount point: the one mounted
\* there last
TopSource(mt, path) ==
    LET idx == {i \in 1..Len(mt) : mt[i].mp = path}
        top == CHOOSE i \in idx : \A j \in idx : j <= i
    IN  mt[top].src

\* the partition name behind a source string, None when it is no partition
\* of the model
PartitionOf(src) ==
    IF \E n \in Partitions : DevSource(n) = src
      THEN CHOOSE n \in Partitions : DevSource(n) = src
      ELSE None

(***************************************************************************)
(* _discover_usb_mounts                                                    *)
(***************************************************************************)

\* one line of the mount table passes the four filters of the loop
AcceptedLine(mt, line) ==
    /\ StartsWith(line.src, <<"/", "d", "e", "v", "/", "s", "d">>)
    /\ line.fs \in SUPPORTED_USB_FILESYSTEMS
    /\ \E r \in 1..Len(USB_SCAN_ROOTS) :
          StartsWith(Str(line.mp), Str(USB_SCAN_ROOTS[r]))
    /\ IsMount(mt, line.mp)

\* the keys of mounts_by_source, in insertion order, from the lines that
\* passed the filters
RECURSIVE SourcesInOrder(_, _)
SourcesInOrder(lines, seen) ==
    IF lines = <<>> THEN <<>>
    ELSE IF Head(lines).src \notin seen
      THEN <<Head(lines).src>> \o SourcesInOrder(Tail(lines), seen \cup {Head(lines).src})
      ELSE SourcesInOrder(Tail(lines), seen)

\* the mount point the second loop selects from mounts_by_source[source]
SelectedMountLast(mountpoints) ==
    LET unique == SortedPathSet(Range(mountpoints))
    IN  unique[Len(unique)]

SelectedMount(mountpoints) ==
    LET unique == SortedPathSet(Range(mountpoints))
        preferred == IF \E i \in 1..Len(unique) : unique[i] = PREFERRED_USB_MOUNT_POINT
                       THEN PREFERRED_USB_MOUNT_POINT
                       ELSE None
    IN  IF preferred # None THEN preferred ELSE unique[1]

_discover_usb_mounts(mt) ==
    LET accepted == SelectSeq(mt, LAMBDA line : AcceptedLine(mt, line))
        sources  == SourcesInOrder(accepted, {})
        mounts_by_source ==
            [source \in Range(sources) |->
                LET of == SelectSeq(accepted, LAMBDA line : line.src = source)
                IN  [i \in 1..Len(of) |-> of[i].mp]]
        selected_mounts ==
            [i \in 1..Len(sources) |-> SelectedMount(mounts_by_source[sources[i]])]
    IN  SortedPaths(selected_mounts)

(***************************************************************************)
(* _attempt_usb_automount (the second definition of that name, the one the *)
(* class keeps).  `nodes` are the partition nodes in /dev and `ok` those   *)
(* of them that mount(8) mounts successfully in this attempt.              *)
(***************************************************************************)

\* Path("/dev").glob("sd*[0-9]") on one name
UsbDeviceGlob(name) ==
    /\ Len(name) >= 3
    /\ SubSeq(name, 1, 2) = <<"s", "d">>
    /\ name[Len(name)] \in {"0", "1", "4"}

\* Path(f"{USB_AUTOMOUNT_POINT}-{device.name}")
SuffixedTarget(name) ==
    LET n == Len(USB_AUTOMOUNT_POINT)
    IN  SubSeq(USB_AUTOMOUNT_POINT, 1, n - 1)
          \o << USB_AUTOMOUNT_POINT[n] \o <<"-">> \o name >>

\* the loop over the sorted devices; returns the mount table it leaves
RECURSIVE AutomountLoop(_, _, _, _, _)
AutomountLoop(devices, mounted_sources, mt, mounted_any, ok) ==
    IF devices = <<>> THEN mt
    ELSE
      LET device == Head(devices)
          name   == device[Len(device)]
          source == Str(device)
          target == IF ~mounted_any THEN USB_AUTOMOUNT_POINT ELSE SuffixedTarget(name)
      IN  IF source \in mounted_sources
            THEN AutomountLoop(Tail(devices), mounted_sources, mt, mounted_any, ok)
          ELSE IF name \in ok
            THEN AutomountLoop(Tail(devices), mounted_sources,
                               Append(mt, [src |-> source, mp |-> target, fs |-> FsOf(name)]),
                               TRUE, ok)
          ELSE AutomountLoop(Tail(devices), mounted_sources, mt, mounted_any, ok)

_attempt_usb_automount(mt, nodes, ok) ==
    LET mounted_sources == {mt[i].src : i \in 1..Len(mt)}
        devices == SortedPathSet({<<<<"d", "e", "v">>, n>> : n \in {m \in nodes : UsbDeviceGlob(m)}})
    IN  AutomountLoop(devices, mounted_sources, mt, FALSE, ok)

(***************************************************************************)
(* Scanning.  The monotonic clock is seen only through the comparisons     *)
(* with the deadline: `budget` is the number of those comparisons that     *)
(* still find the clock before the deadline; once it is 0 every later      *)
(* comparison finds the deadline reached.                                  *)
(***************************************************************************)

\* os.scandir(current) below the mount point `mount`
Scandir(mt, mount, current) ==
    LET part == PartitionOf(TopSource(mt, mount))
    IN  IF part = None THEN <<>>
        ELSE Listing(part, SubSeq(current, Len(mount) + 1, Len(current)))

\* the directories one scandir pushes on the stack
RECURSIVE EntryDirs(_, _)
EntryDirs(current, entries) ==
    IF entries = <<>> THEN <<>>
    ELSE IF Head(entries).kind = "dir"
      THEN <<Append(current, Head(entries).name)>> \o EntryDirs(current, Tail(entries))
      ELSE EntryDirs(current, Tail(entries))

\* the files one scandir appends to the candidates
RECURSIVE EntryVideos(_, _)
EntryVideos(current, entries) ==
    IF entries = <<>> THEN <<>>
    ELSE IF /\ Head(entries).kind = "file"
            /\ Lower(Suffix(Append(current, Head(entries).name))) \in VIDEO_EXTENSIONS
      THEN <<Append(current, Head(entries).name)>> \o EntryVideos(current, Tail(entries))
      ELSE EntryVideos(current, Tail(entries))

\* the while loop of _collect_videos_under_mount
RECURSIVE CollectLoop(_, _, _, _, _, _)
CollectLoop(mt, mount, stack, candidates, budget, opened) ==
    IF stack = <<>> THEN [candidates |-> candidates, budget |-> budget, opened |-> opened]
    ELSE IF budget = 0 THEN [candidates |-> candidates, budget |-> 0, opened |-> opened]
    ELSE
      LET current == stack[Len(stack)]
          entries == Scandir(mt, mount, current)
      IN  CollectLoop(mt, mount,
                      SubSeq(stack, 1, Len(stack) - 1) \o EntryDirs(current, entries),
                      candidates \o EntryVideos(current, entries),
                      budget - 1,
                      Append(opened, [mount |-> mount, dir |-> current]))

\* returns the candidates, the budget left and the directories it opened
_collect_videos_under_mount(mt, mount, budget) ==
    CollectLoop(mt, mount, <<mount>>, <<>>, budget, <<>>)

\* the for loop of _scan_videos_from_mounts
RECURSIVE ScanLoop(_, _, _, _, _, _, _)
ScanLoop(mt, mounts, candidates, budget, given, started, opened) ==
    LET result(b) == [candidates |-> candidates, budget |-> b, given |-> given,
                      started |-> started, opened |-> opened]
    IN  IF mounts = <<>> THEN result(budget)
        ELSE IF budget = 0 THEN result(0)
        ELSE IF ~IsMount(mt, Head(mounts))
          THEN ScanLoop(mt, Tail(mounts), candidates, budget - 1, given,
                        Append(started, Head(mounts)), opened)
        ELSE
          LET got == _collect_videos_under_mount(mt, Head(mounts), budget - 1)
          IN  ScanLoop(mt, Tail(mounts), candidates \o got.candidates, got.budget, given,
                       Append(started, Head(mounts)), opened \o got.opened)

\* returns the candidates, the budget given and the budget left, the mounts
\* whose turn came before the deadline and the directories opened
_scan_videos_from_mounts(mt, mounts, budget) ==
    ScanLoop(mt, mounts, <<>>, budget, budget, <<>>, <<>>)

(***************************************************************************)
(* refresh_candidates.  It returns the set of outcomes it can have, over   *)
(* what mount(8) answers in each auto-mount attempt and over where the     *)
(* clock stands: each outcome is the mount table it leaves, the list it    *)
(* stores in video_candidates, how many scans and auto-mount attempts it   *)
(* made and what each of its scans returned (trace).                       *)
(***************************************************************************)

\* the partitions an auto-mount attempt would try to mount
Unmounted(mt, nodes) ==
    {n \in nodes : UsbDeviceGlob(n) /\ \A i \in 1..Len(mt) : mt[i].src # DevSource(n)}

\* lines 252-257: the retry after a scan without candidates
RefreshRetry_new_deadline(mt1, nodes, scan1, n1) ==
    { LET mt2   == _attempt_usb_automount(mt1, nodes, ok2)
          scan2 == _scan_videos_from_mounts(mt2, _discover_usb_mounts(mt2), MaxBudget)
      IN  [mt |-> mt2, candidates |-> scan2.candidates,
           scans |-> 2, automounts |-> n1 + 1, trace |-> <<scan1, scan2>>] :
      ok2 \in SUBSET Unmounted(mt1, nodes) }

RefreshRetry(mt1, nodes, scan1, n1) ==
    { LET mt2   == _attempt_usb_automount(mt1, nodes, ok2)
          scan2 == _scan_videos_from_mounts(mt2, _discover_usb_mounts(mt2), scan1.budget)
      IN  [mt |-> mt2, candidates |-> scan2.candidates,
           scans |-> 2, automounts |-> n1 + 1, trace |-> <<scan1, scan2>>] :
      ok2 \in SUBSET Unmounted(mt1, nodes) }

\* lines 250-259, with the mount table mt1 that lines 244-248 left
RefreshScan_always_retry(mt1, nodes, n1) ==
    LET mounts == _discover_usb_mounts(mt1)
    IN  UNION { RefreshRetry(mt1, nodes, _scan_videos_from_mounts(mt1, mounts, budget), n1) :
                budget \in 0..MaxBudget }

RefreshScan(mt1, nodes, n1) ==
    LET mounts == _discover_usb_mounts(mt1)
    IN  UNION { LET scan1 == _scan_videos_from_mounts(mt1, mounts, budget)
                IN  IF scan1.candidates # <<>>
                      THEN {[mt |-> mt1, candidates |-> scan1.candidates,
                             scans |-> 1, automounts |-> n1, trace |-> <<scan1>>]}
                      ELSE RefreshRetry(mt1, nodes, scan1, n1) :
                budget \in 0..MaxBudget }

refresh_candidates(mt, nodes) ==
    IF _discover_usb_mounts(mt) = <<>>
      THEN UNION { RefreshScan(_attempt_usb_automount(mt, nodes, ok1), nodes, 1) :
                   ok1 \in SUBSET Unmounted(mt, nodes) }
      ELSE RefreshScan(mt, nodes, 0)

(***************************************************************************)
(* _resolve_audio_device_arg.  `env` is the value of the AUDIO_DEVICE      *)
(* environment variable ("" when unset) and `status` gives, per connector  *)
(* status file, whether it can be read and its text.                       *)
(***************************************************************************)

VC4HDMI0 == <<"v", "c", "4", "h", "d", "m", "i", "0">>
VC4HDMI1 == <<"v", "c", "4", "h", "d", "m", "i", "1">>

\* the items of the dict, in insertion order
HDMI_STATUS_TO_AUDIO_DEVICE ==
    << [path |-> "card1-HDMI-A-1", audio_device |-> VC4HDMI0],
       [path |-> "card1-HDMI-A-2", audio_device |-> VC4HDMI1],
       [path |-> "card0-HDMI-A-1", audio_device |-> VC4HDMI0],
       [path |-> "card0-HDMI-A-2", audio_device |-> VC4HDMI1] >>

StatusPaths == {HDMI_STATUS_TO_AUDIO_DEVICE[i].path : i \in 1..Len(HDMI_STATUS_TO_AUDIO_DEVICE)}

CONNECTED == <<"c", "o", "n", "n", "e", "c", "t", "e", "d">>

\* the for loop, from item i on
RECURSIVE ProbeFromLast(_, _)
ProbeFromLast(status, i) ==
    IF i < 1 THEN <<>>
    ELSE
      LET item == HDMI_STATUS_TO_AUDIO_DEVICE[i]
          file == status[item.path]
      IN  IF ~file.readable THEN ProbeFromLast(status, i - 1)
          ELSE IF Lower(Strip(file.text)) = CONNECTED THEN <<item.audio_device>>
          ELSE ProbeFromLast(status, i - 1)

RECURSIVE ProbeFrom(_, _)
ProbeFrom(status, i) ==
    IF i > Len(HDMI_STATUS_TO_AUDIO_DEVICE) THEN <<>>
    ELSE
      LET item == HDMI_STATUS_TO_AUDIO_DEVICE[i]
          file == status[item.path]
      IN  IF ~file.readable THEN ProbeFrom(status, i + 1)
          ELSE IF Lower(Strip(file.text)) = CONNECTED THEN <<item.audio_device>>
          ELSE ProbeFrom(status, i + 1)

\* the list of arguments returned: empty, or the one --audio-device=<value>
\* argument, given by its value
_resolve_audio_device_arg(env, status) ==
    LET forced == Strip(env)
    IN  IF forced # <<>> THEN <<forced>> ELSE ProbeFrom(status, 1)

(***************************************************************************)
(* select_video: the set of values random.choice can return.               *)
(***************************************************************************)

select_video_any(videos, last_played) ==
    IF videos = <<>> THEN {None} ELSE Range(videos)

select_video(videos, last_played) ==
    IF videos = <<>> THEN {None}
    ELSE
      LET pool == SelectSeq(videos, LAMBDA video : video # last_played)
      IN  IF last_played # None /\ Len(videos) > 1 /\ pool # <<>>
            THEN Range(pool)
            ELSE Range(videos)

(***************************************************************************)
(* State.                                                                  *)
(***************************************************************************)

VARIABLES
    mpv_process,       \* self.mpv_process: the pid of the Popen held, 0 for None
    auto_restart,      \* self.auto_restart
    video_candidates,  \* self.video_candidates
    last_played,       \* self.last_played
    keyboards,         \* run's local list of opened input devices
    ready,             \* the ready devices of this iteration not yet read to the end
    pc,                \* where main/run stands
    procs,             \* per pid: "free", "alive" or "exited" (not yet reaped)
    sigterms,          \* per pid: SIGTERMs sent to its process group
    mtab,              \* /proc/mounts
    devnodes,          \* partition nodes in /dev
    attached,          \* input devices plugged in
    status,            \* the HDMI connector status files
    audio_env,         \* os.environ["AUDIO_DEVICE"], "" when unset
    mounts,            \* what _discover_usb_mounts returned, called on its own
    last_refresh,      \* what refresh_candidates did, called on its own
    audio_arg,         \* the audio arguments of the last command line built
    fx,                \* what the step just taken did
    stopped            \* a STOP was handled and no START since

vars == << mpv_process, auto_restart, video_candidates, last_played, keyboards,
           ready, pc, procs, sigterms, mtab, devnodes, attached, status,
           audio_env, mounts, last_refresh, audio_arg, fx, stopped >>

\* the state a handler works on, with a fresh record of its effects
Ctl(op) ==
    [ mpv_process |-> mpv_process, auto_restart |-> auto_restart,
      video_candidates |-> video_candidates, last_played |-> last_played,
      procs |-> procs, sigterms |-> sigterms, mtab |-> mtab,
      audio_arg |-> audio_arg,
      op |-> op, spawned |-> 0, signalled |-> <<>>, lookup_failed |-> FALSE,
      rescanned |-> FALSE, advance |-> FALSE, raised |-> FALSE, discarded |-> FALSE ]

FxFields == { "op", "spawned", "signalled", "lookup_failed", "rescanned",
              "advance", "raised", "discarded" }

\* the handler's outcome r becomes the next state
Commit(r) ==
    /\ mpv_process' = r.mpv_process
    /\ auto_restart' = r.auto_restart
    /\ video_candidates' = r.video_candidates
    /\ last_played' = r.last_played
    /\ procs' = r.procs
    /\ sigterms' = r.sigterms
    /\ mtab' = r.mtab
    /\ audio_arg' = r.audio_arg
    /\ fx' = [f \in FxFields |-> r[f]]

(***************************************************************************)
(* The handlers.  Each returns the set of outcomes it can have: the        *)
(* choices are random.choice, the results of mount(8), the clock, and what *)
(* the operating system answers for a process.                             *)
(***************************************************************************)

\* stop_playback
stop_playback_signal_only(c) ==
    LET process == c.mpv_process
    IN  IF process = 0 THEN {c}
        ELSE {[c EXCEPT !.sigterms[process] = @ + 1,
                        !.signalled = Append(@, process)]}

stop_playback_keep_handle(c) ==
    LET process == c.mpv_process
    IN  IF process = 0 THEN {[c EXCEPT !.auto_restart = FALSE]}
        ELSE {[c EXCEPT !.auto_restart = FALSE,
                        !.sigterms[process] = @ + 1,
                        !.signalled = Append(@, process)]}

stop_playback(c) ==
    LET c1 == [c EXCEPT !.auto_restart = FALSE]
        process == c.mpv_process
    IN  IF process = 0 THEN {c1}
        ELSE IF c.procs[process] = "alive"
          THEN {[c1 EXCEPT !.mpv_process = 0,
                           !.sigterms[process] = @ + 1,
                           !.signalled = Append(@, process)]}
          \* the process has exited: killpg reaches the unreaped process
          \* group, or getpgid raises ProcessLookupError; dropping the
          \* Popen leaves the dead process to be reaped
          ELSE {[c1 EXCEPT !.mpv_process = 0,
                           !.procs[process] = "free",
                           !.sigterms[process] = 0,
                           !.signalled = Append(@, process)],
                [c1 EXCEPT !.mpv_process = 0,
                           !.procs[process] = "free",
                           !.sigterms[process] = 0,
                           !.lookup_failed = TRUE]}

\* refresh_candidates as a step of the controller
Refreshed(c) ==
    { [c EXCEPT !.mtab = r.mt, !.video_candidates = r.candidates,
                !.rescanned = TRUE] :
      r \in refresh_candidates(c.mtab, devnodes) }

\* lines 210-224: subprocess.Popen starts the player, or raises OSError
\* (no mpv, no process id left)
Popen_no_flag(c, selected) ==
    LET free == {p \in Pids : c.procs[p] = "free"}
        pid  == CHOOSE p \in free : \A q \in free : p <= q
        c1   == [c EXCEPT !.last_played = selected]
    IN  {[c1 EXCEPT !.raised = TRUE]}
          \cup (IF free = {} THEN {}
                ELSE {[c1 EXCEPT !.mpv_process = pid,
                                 !.procs[pid] = "alive",
                                 !.sigterms[pid] = 0,
                                 !.spawned = pid,
                                 !.audio_arg = _resolve_audio_device_arg(audio_env, status)]})

Popen_no_last_played(c, selected) ==
    LET free == {p \in Pids : c.procs[p] = "free"}
        pid  == CHOOSE p \in free : \A q \in free : p <= q
        c1   == [c EXCEPT !.auto_restart = TRUE]
    IN  {[c1 EXCEPT !.raised = TRUE]}
          \cup (IF free = {} THEN {}
                ELSE {[c1 EXCEPT !.mpv_process = pid,
                                 !.procs[pid] = "alive",
                                 !.sigterms[pid] = 0,
                                 !.spawned = pid,
                                 !.audio_arg = _resolve_audio_device_arg(audio_env, status)]})

Popen(c, selected) ==
    LET free == {p \in Pids : c.procs[p] = "free"}
        pid  == CHOOSE p \in free : \A q \in free : p <= q
        c1   == [c EXCEPT !.last_played = selected, !.auto_restart = TRUE]
    IN  {[c1 EXCEPT !.raised = TRUE]}
          \cup (IF free = {} THEN {}
                ELSE {[c1 EXCEPT !.mpv_process = pid,
                                 !.procs[pid] = "alive",
                                 !.sigterms[pid] = 0,
                                 !.spawned = pid,
                                 !.audio_arg = _resolve_audio_device_arg(audio_env, status)]})

\* start_random_video
start_random_video_no_stop(c, force_restart, rescan) ==
    LET B == IF rescan THEN Refreshed(c) ELSE {c}
    IN  UNION { IF b.video_candidates = <<>>
                  THEN {[b EXCEPT !.auto_restart = FALSE]}
                  ELSE UNION { Popen(b, selected) :
                               selected \in select_video(b.video_candidates, b.last_played) } :
                b \in B }

start_random_video(c, force_restart, rescan) ==
    LET A == IF c.mpv_process # 0 /\ force_restart THEN stop_playback(c) ELSE {c}
        B == IF rescan THEN UNION {Refreshed(a) : a \in A} ELSE A
    IN  UNION { IF b.video_candidates = <<>>
                  THEN {[b EXCEPT !.auto_restart = FALSE]}
                  ELSE UNION { Popen(b, selected) :
                               selected \in select_video(b.video_candidates, b.last_played) } :
                b \in B }

\* _check_playback_exit
_check_playback_exit_rescan(c) ==
    LET process == c.mpv_process
        c1 == [c EXCEPT !.mpv_process = 0, !.procs[process] = "free",
                        !.sigterms[process] = 0]
    IN  IF process = 0 THEN {c}
        ELSE IF c.procs[process] # "exited" THEN {c}
        ELSE IF c1.auto_restart
          THEN start_random_video([c1 EXCEPT !.advance = TRUE], FALSE, TRUE)
          ELSE {c1}

_check_playback_exit(c) ==
    LET process == c.mpv_process
        c1 == [c EXCEPT !.mpv_process = 0, !.procs[process] = "free",
                        !.sigterms[process] = 0]
    IN  IF process = 0 THEN {c}
        ELSE IF c.procs[process] # "exited" THEN {c}
        ELSE IF c1.auto_restart
          THEN start_random_video([c1 EXCEPT !.advance = TRUE], FALSE, FALSE)
          ELSE {c1}

\* the input events of the model: [type, code, value]; value is the key
\* state of an EV_KEY event
KeyEvents ==
    { [type |-> "EV_KEY", code |-> "KEY_S", value |-> "down"],
      [type |-> "EV_KEY", code |-> "KEY_E", value |-> "down"],
      [type |-> "EV_KEY", code |-> "KEY_S", value |-> "up"],
      [type |-> "EV_KEY", code |-> "KEY_E", value |-> "hold"],
      [type |-> "EV_KEY", code |-> "KEY_A", value |-> "down"],
      [type |-> "EV_SYN", code |-> "KEY_S", value |-> "down"] }

\* _handle_event
_handle_event_any_value(c, event) ==
    IF event.type # "EV_KEY" THEN {c}
    ELSE IF event.code = "KEY_S" THEN start_random_video(c, TRUE, TRUE)
    ELSE IF event.code = "KEY_E" THEN stop_playback(c)
    ELSE {c}

_handle_event(c, event) ==
    IF event.type # "EV_KEY" THEN {c}
    ELSE IF event.value # "down" THEN {c}
    ELSE IF event.code = "KEY_S" THEN start_random_video(c, TRUE, TRUE)
    ELSE IF event.code = "KEY_E" THEN stop_playback(c)
    ELSE {c}

\* the finally clause of run, on the way out of the loop
run_finally_no_stop(c) == {c}

run_finally(c) == stop_playback(c)

\* _open_keyboard_devices: the qualifying devices, in list_devices() order
_open_keyboard_devices(present) ==
    IF "event0" \in present
      THEN (IF "event1" \in present THEN <<"event0", "event1">> ELSE <<"event0">>)
      ELSE (IF "event1" \in present THEN <<"event1">> ELSE <<>>)

(***************************************************************************)
(* main and run, step by step.  pc is "startup" before line 62, "select"   *)
(* at the top of the while loop, "events" inside the for loop over the     *)
(* ready devices, "check" before _check_playback_exit and "backoff" in     *)
(* main's sleep before the next controller is made.                        *)
(***************************************************************************)

\* the input devices with a KEY_S or KEY_E capability that can be plugged in
InputDevices == {"event0", "event1"}

\* what select() can return for the opened devices, in their order: a device
\* that was unplugged is ready (its read will fail); a plugged one is ready
\* when it has events
RECURSIVE ReadyLists(_, _)
ReadyLists(devs, present) ==
    IF devs = <<>> THEN {<<>>}
    ELSE
      LET d == Head(devs)
      IN  IF d \notin present
            THEN { <<[dev |-> d, ok |-> FALSE]>> \o rest :
                   rest \in ReadyLists(Tail(devs), present) }
            ELSE ReadyLists(Tail(devs), present)
                   \cup { <<[dev |-> d, ok |-> TRUE]>> \o rest :
                          rest \in ReadyLists(Tail(devs), present) }

InitFx ==
    [ op |-> "init", spawned |-> 0, signalled |-> <<>>, lookup_failed |-> FALSE,
      rescanned |-> FALSE, advance |-> FALSE, raised |-> FALSE, discarded |-> FALSE ]

\* a step of the loop that calls no handler
PlainFx(op) == [InitFx EXCEPT !.op = op]

\* RandomVideoPlayer.__init__
NewController ==
    /\ mpv_process' = 0
    /\ auto_restart' = FALSE
    /\ video_candidates' = <<>>
    /\ last_played' = None

\* connector A connected, connector B disconnected, no override
ScenarioStatus ==
    [ p \in StatusPaths |->
        IF p = "card1-HDMI-A-1"
          THEN [readable |-> TRUE, text |-> CONNECTED \o <<"\n">>]
          ELSE [readable |-> TRUE, text |-> <<"d", "i", "s">> \o CONNECTED \o <<"\n">>] ]

Init ==
    /\ mpv_process = 0
    /\ auto_restart = FALSE
    /\ video_candidates = <<>>
    /\ last_played = None
    /\ keyboards = <<>>
    /\ ready = <<>>
    /\ pc = "startup"
    /\ procs = [p \in Pids |-> "free"]
    /\ sigterms = [p \in Pids |-> 0]
    /\ mtab = <<>>
    /\ devnodes = {}
    /\ attached = {"event0"}
    /\ status = ScenarioStatus
    /\ audio_env = <<>>
    /\ mounts = <<>>
    /\ last_refresh = None
    /\ audio_arg = <<>>
    /\ fx = InitFx
    /\ stopped = FALSE

\* what the program never writes
Surroundings == <<devnodes, attached, status, audio_env, mounts, last_refresh>>

\* what only the handlers write
Playback == <<mpv_process, auto_restart, video_candidates, last_played,
              procs, sigterms, mtab, audio_arg>>

\* a handler ended with outcome r: an exception it raised leaves the loop
\* through the finally clause and run, and main goes to sleep; otherwise the
\* loop goes on at `next` with `rest` still to read
Finish(r, next, rest) ==
    IF r.raised
      THEN /\ \E f \in run_finally(r) : Commit(f)
           /\ pc' = "backoff"
           /\ ready' = <<>>
           /\ keyboards' = <<>>
      ELSE /\ Commit(r)
           /\ pc' = next
           /\ ready' = rest
           /\ UNCHANGED keyboards

\* lines 62 and 64: the startup refresh, then the devices are opened
Startup ==
    /\ pc = "startup"
    /\ \E r \in Refreshed(Ctl("startup")) : Commit(r)
    /\ keyboards' = _open_keyboard_devices(attached)
    /\ pc' = "select"
    /\ UNCHANGED <<ready, stopped, Surroundings>>

\* lines 70-74: no device is open; sleep, then look for devices again
SleepRetry_skips_check ==
    /\ pc = "select"
    /\ keyboards = <<>>
    /\ keyboards' = _open_keyboard_devices(attached)
    /\ pc' = "select"
    /\ fx' = PlainFx("retry")
    /\ UNCHANGED <<ready, stopped, Playback, Surroundings>>

SleepRetry ==
    /\ pc = "select"
    /\ keyboards = <<>>
    /\ keyboards' = _open_keyboard_devices(attached)
    /\ pc' = "check"
    /\ fx' = PlainFx("retry")
    /\ UNCHANGED <<ready, stopped, Playback, Surroundings>>

\* line 76: select() returns the ready devices
Poll ==
    /\ pc = "select"
    /\ keyboards # <<>>
    /\ \E rl \in ReadyLists(keyboards, attached) :
          /\ ready' = rl
          /\ pc' = IF rl = <<>> THEN "check" ELSE "events"
    /\ fx' = PlainFx("poll")
    /\ UNCHANGED <<keyboards, stopped, Playback, Surroundings>>

\* lines 78-83: device.read() raises OSError
ReadFails_escapes ==
    /\ pc = "events"
    /\ ~Head(ready).ok
    /\ \E f \in run_finally(Ctl("read-failed")) : Commit(f)
    /\ pc' = "backoff"
    /\ ready' = <<>>
    /\ keyboards' = <<>>
    /\ UNCHANGED <<stopped, Surroundings>>

\* reopen the devices and leave the for loop.  The ready devices not yet
\* read are left unread, and the new list holds newly opened InputDevice
\* objects: what the old objects had received is never read.  `lost` says
\* whether that included a START or STOP key-down.
ReadFails ==
    /\ pc = "events"
    /\ ~Head(ready).ok
    /\ keyboards' = _open_keyboard_devices(attached)
    /\ ready' = <<>>
    /\ pc' = "check"
    /\ \E lost \in (IF \E i \in 2..Len(ready) : ready[i].ok THEN BOOLEAN ELSE {FALSE}) :
          fx' = [PlainFx("read-failed") EXCEPT !.discarded = lost]
    /\ UNCHANGED <<stopped, Playback, Surroundings>>

\* the command an event stands for
Command(event) ==
    IF event.type = "EV_KEY" /\ event.value = "down" /\ event.code = "KEY_S" THEN "START"
    ELSE IF event.type = "EV_KEY" /\ event.value = "down" /\ event.code = "KEY_E" THEN "STOP"
    ELSE "ignored"

\* lines 79 and 85-86: the next event of the device being read is handled;
\* `more` says whether the list that device.read() returned holds another
HandleEvent_check_first ==
    /\ pc = "events"
    /\ Head(ready).ok
    /\ \E event \in KeyEvents :
          /\ \E r0 \in _check_playback_exit(Ctl(Command(event))) :
                \E r \in (IF r0.raised THEN {r0} ELSE _handle_event(r0, event)) :
                   \E more \in BOOLEAN :
                      LET rest == IF more THEN ready ELSE Tail(ready)
                      IN  Finish(r, IF rest = <<>> THEN "check" ELSE "events", rest)
          /\ stopped' = IF Command(event) = "STOP" THEN TRUE
                        ELSE IF Command(event) = "START" THEN FALSE
                        ELSE stopped
    /\ UNCHANGED Surroundings

HandleEvent ==
    /\ pc = "events"
    /\ Head(ready).ok
    /\ \E event \in KeyEvents :
          /\ \E r \in _handle_event(Ctl(Command(event)), event) :
                \E more \in BOOLEAN :
                   LET rest == IF more THEN ready ELSE Tail(ready)
                   IN  Finish(r, IF rest = <<>> THEN "check" ELSE "events", rest)
          /\ stopped' = IF Command(event) = "STOP" THEN TRUE
                        ELSE IF Command(event) = "START" THEN FALSE
                        ELSE stopped
    /\ UNCHANGED Surroundings

\* line 88
CheckExit ==
    /\ pc = "check"
    /\ \E r \in _check_playback_exit(Ctl("check")) : Finish(r, "select", <<>>)
    /\ UNCHANGED <<stopped, Surroundings>>

\* lines 89-94: KeyboardInterrupt, or any other exception, is raised inside
\* the loop: the finally clause runs and run is left
Interrupt ==
    /\ pc \in {"select", "events", "check"}
    /\ \E f \in run_finally(Ctl("interrupt")) : Commit(f)
    /\ pc' = "backoff"
    /\ ready' = <<>>
    /\ keyboards' = <<>>
    /\ UNCHANGED <<stopped, Surroundings>>

\* lines 512-522: after the sleep main makes the next controller
Restart ==
    /\ pc = "backoff"
    /\ NewController
    /\ pc' = "startup"
    /\ fx' = PlainFx("restart")
    /\ stopped' = FALSE
    /\ UNCHANGED <<keyboards, ready, procs, sigterms, mtab, audio_arg, Surroundings>>

(***************************************************************************)
(* The environment.                                                        *)
(***************************************************************************)

\* a step the program did not take
EnvFx == [InitFx EXCEPT !.op = "env"]

\* a player process ends (end of file, or the SIGTERM it was sent); one the
\* controller still holds stays unreaped until it is polled
ProcExit(p) ==
    /\ procs[p] = "alive"
    /\ procs' = [procs EXCEPT ![p] = IF p = mpv_process THEN "exited" ELSE "free"]
    /\ sigterms' = [sigterms EXCEPT ![p] = IF p = mpv_process THEN @ ELSE 0]
    /\ fx' = EnvFx
    /\ UNCHANGED <<mpv_process, auto_restart, video_candidates, last_played, keyboards,
                   ready, pc, mtab, audio_arg, stopped, Surroundings>>

\* a partition is plugged in
Plug(n) ==
    /\ n \notin devnodes
    /\ devnodes' = devnodes \cup {n}
    /\ fx' = EnvFx
    /\ UNCHANGED <<keyboards, ready, pc, stopped, Playback,
                   attached, status, audio_env, mounts, last_refresh>>

\* a partition is pulled: its node and its mounts go
Unplug(n) ==
    /\ n \in devnodes
    /\ devnodes' = devnodes \ {n}
    /\ mtab' = SelectSeq(mtab, LAMBDA line : line.src # DevSource(n))
    /\ fx' = EnvFx
    /\ UNCHANGED <<mpv_process, auto_restart, video_candidates, last_played, keyboards,
                   ready, pc, procs, sigterms, audio_arg, stopped,
                   attached, status, audio_env, mounts, last_refresh>>

\* a keyboard is plugged in
Attach(d) ==
    /\ d \notin attached
    /\ attached' = attached \cup {d}
    /\ fx' = EnvFx
    /\ UNCHANGED <<keyboards, ready, pc, stopped, Playback,
                   devnodes, status, audio_env, mounts, last_refresh>>

\* a keyboard is pulled
Detach(d) ==
    /\ d \in attached
    /\ attached' = attached \ {d}
    /\ fx' = EnvFx
    /\ UNCHANGED <<keyboards, ready, pc, stopped, Playback,
                   devnodes, status, audio_env, mounts, last_refresh>>

\* the keyboard stays plugged in; partitions come and go
Next ==
    \/ Startup
    \/ Poll
    \/ HandleEvent
    \/ CheckExit
    \/ Interrupt
    \/ Restart
    \/ \E p \in Pids : ProcExit(p)
    \/ \E n \in Partitions : Plug(n)
    \/ \E n \in Partitions : Unplug(n)

Spec == Init /\ [][Next]_vars

\* one partition stays plugged in; keyboards come and go
InitInput ==
    /\ mpv_process = 0
    /\ auto_restart = FALSE
    /\ video_candidates = <<>>
    /\ last_played = None
    /\ keyboards = <<>>
    /\ ready = <<>>
    /\ pc = "startup"
    /\ procs = [p \in Pids |-> "free"]
    /\ sigterms = [p \in Pids |-> 0]
    /\ mtab = <<>>
    /\ devnodes = {SDA1}
    /\ attached = {}
    /\ status = ScenarioStatus
    /\ audio_env = <<>>
    /\ mounts = <<>>
    /\ last_refresh = None
    /\ audio_arg = <<>>
    /\ fx = InitFx
    /\ stopped = FALSE

NextInput ==
    \/ Startup
    \/ SleepRetry
    \/ Poll
    \/ ReadFails
    \/ HandleEvent
    \/ CheckExit
    \/ Interrupt
    \/ Restart
    \/ \E p \in Pids : ProcExit(p)
    \/ \E d \in InputDevices : Attach(d)
    \/ \E d \in InputDevices : Detach(d)

SpecInput == InitInput /\ [][NextInput]_vars

\* the loop keeps running while no input device is open: time.sleep(1)
\* returns and _check_playback_exit returns (poll() does not block and the
\* auto-advance does not rescan), so each of the two is taken when it is
\* next.  Nothing is assumed about the other steps.
SpecInputFair ==
    /\ SpecInput
    /\ WF_vars(SleepRetry)
    /\ WF_vars(CheckExit)

(***************************************************************************)
(* Mount discovery on its own: _discover_usb_mounts applied to the mount   *)
(* tables of up to MaxLines lines over the lines below.                    *)
(***************************************************************************)

MNT   == <<"m", "n", "t">>
USB   == <<"u", "s", "b">>
MEDIA == <<"m", "e", "d", "i", "a">>

\* mount points: /mnt/usb, /mnt/usb-sda1, /mnt/usb/x, /media/a, /mntx/a
\* and, in a line of its own below, /home/a
SomeMountpoints ==
    { <<MNT, USB>>, <<MNT, USB \o <<"-">> \o SDA1>>, <<MNT, USB, <<"x">>>>,
      <<MEDIA, <<"a">>>>, <<MNT \o <<"x">>, <<"a">>>> }

SomeLines ==
    { [src |-> DevSource(n), mp |-> m, fs |-> "vfat"] :
        n \in Partitions, m \in SomeMountpoints }
      \cup { [src |-> DevSource(SDA1), mp |-> <<MEDIA, <<"a">>>>, fs |-> "btrfs"],
             [src |-> DevSource(SDA1), mp |-> <<<<"h", "o", "m", "e">>, <<"a">>>>, fs |-> "vfat"],
             [src |-> Str(<<<<"d", "e", "v">>, <<"m", "m", "c", "b", "l", "k", "0", "p", "1">>>>),
              mp |-> <<MEDIA, <<"a">>>>, fs |-> "vfat"] }

InitDiscover ==
    /\ mpv_process = 0
    /\ auto_restart = FALSE
    /\ video_candidates = <<>>
    /\ last_played = None
    /\ keyboards = <<>>
    /\ ready = <<>>
    /\ pc = "discover"
    /\ procs = [p \in Pids |-> "free"]
    /\ sigterms = [p \in Pids |-> 0]
    /\ mtab \in UNION { [1..k -> SomeLines] : k \in 0..MaxLines }
    /\ devnodes = {}
    /\ attached = {}
    /\ status = ScenarioStatus
    /\ audio_env = <<>>
    /\ mounts = <<>>
    /\ last_refresh = None
    /\ audio_arg = <<>>
    /\ fx = InitFx
    /\ stopped = FALSE

Discover ==
    /\ pc = "discover"
    /\ mounts' = _discover_usb_mounts(mtab)
    /\ pc' = "discovered"
    /\ UNCHANGED <<keyboards, ready, stopped, fx, Playback, devnodes, attached,
                   status, audio_env, last_refresh>>

NextDiscover == Discover

SpecDiscover == InitDiscover /\ [][NextDiscover]_vars

(***************************************************************************)
(* Audio routing on its own: _resolve_audio_device_arg applied to every    *)
(* combination of the status files and the AUDIO_DEVICE values below.      *)
(***************************************************************************)

\* a status file: unreadable, or one of four texts
SomeStatusFiles ==
    { [readable |-> FALSE, text |-> <<>>],
      [readable |-> TRUE, text |-> CONNECTED \o <<"\n">>],
      [readable |-> TRUE, text |-> <<"C">> \o Tail(CONNECTED)],
      [readable |-> TRUE, text |-> <<"d", "i", "s">> \o CONNECTED \o <<"\n">>] }

\* AUDIO_DEVICE: unset, blank, or naming a device
SomeAudioEnv == { <<>>, <<" ">>, <<"h", "w">>, <<" ", "h", "w", " ">> }

InitAudio ==
    /\ mpv_process = 0
    /\ auto_restart = FALSE
    /\ video_candidates = <<>>
    /\ last_played = None
    /\ keyboards = <<>>
    /\ ready = <<>>
    /\ pc = "resolve"
    /\ procs = [p \in Pids |-> "free"]
    /\ sigterms = [p \in Pids |-> 0]
    /\ mtab = <<>>
    /\ devnodes = {}
    /\ attached = {}
    /\ status \in [StatusPaths -> SomeStatusFiles]
    /\ audio_env \in SomeAudioEnv
    /\ mounts = <<>>
    /\ last_refresh = None
    /\ audio_arg = <<>>
    /\ fx = InitFx
    /\ stopped = FALSE

Resolve ==
    /\ pc = "resolve"
    /\ audio_arg' = _resolve_audio_device_arg(audio_env, status)
    /\ pc' = "resolved"
    /\ UNCHANGED <<mpv_process, auto_restart, video_candidates, last_played, keyboards,
                   ready, procs, sigterms, mtab, stopped, fx, Surroundings>>

NextAudio == Resolve

SpecAudio == InitAudio /\ [][NextAudio]_vars

(***************************************************************************)
(* refresh_candidates on its own, applied once to every mount table of up  *)
(* to MaxLines of the lines below whose partitions are plugged in, at      *)
(* every position of the clock and with every answer of mount(8).          *)
(***************************************************************************)

\* /dev/sda1 at /mnt/usb or /home/a, /dev/sdb1 at /mnt/usb or /media/a
RefreshLines ==
    { [src |-> DevSource(SDA1), mp |-> <<MNT, USB>>, fs |-> FsOf(SDA1)],
      [src |-> DevSource(SDA1), mp |-> <<<<"h", "o", "m", "e">>, <<"a">>>>, fs |-> FsOf(SDA1)],
      [src |-> DevSource(SDB1), mp |-> <<MNT, USB>>, fs |-> FsOf(SDB1)],
      [src |-> DevSource(SDB1), mp |-> <<MEDIA, <<"a">>>>, fs |-> FsOf(SDB1)] }

InitRefresh ==
    /\ mpv_process = 0
    /\ auto_restart = FALSE
    /\ video_candidates = <<>>
    /\ last_played = None
    /\ keyboards = <<>>
    /\ ready = <<>>
    /\ pc = "refresh"
    /\ procs = [p \in Pids |-> "free"]
    /\ sigterms = [p \in Pids |-> 0]
    /\ devnodes \in SUBSET Partitions
    /\ mtab \in UNION { [1..k -> RefreshLines] : k \in 0..MaxLines }
    /\ \A i \in 1..Len(mtab) : \E n \in devnodes : mtab[i].src = DevSource(n)
    /\ attached = {}
    /\ status = ScenarioStatus
    /\ audio_env = <<>>
    /\ mounts = <<>>
    /\ last_refresh = None
    /\ audio_arg = <<>>
    /\ fx = InitFx
    /\ stopped = FALSE

Refresh ==
    /\ pc = "refresh"
    /\ \E r \in refresh_candidates(mtab, devnodes) :
          /\ last_refresh' = r
          /\ mtab' = r.mt
          /\ video_candidates' = r.candidates
    /\ pc' = "refreshed"
    /\ UNCHANGED <<mpv_process, auto_restart, last_played, keyboards, ready, procs,
                   sigterms, devnodes, attached, status, audio_env, mounts,
                   audio_arg, fx, stopped>>

NextRefresh == Refresh

SpecRefresh == InitRefresh /\ [][NextRefresh]_vars

(***************************************************************************)
(* The risk bucket of a file, as the design's classifier assigns it from   *)
(* what the probe reports: codec, the larger of width and height, and      *)
(* whether the pixel format is a 10-bit one.                               *)
(***************************************************************************)

Probe(path) ==
    LET name == path[Len(path)]
    IN  IF name = <<"a", ".", "m", "p", "4">>
          THEN [codec |-> "h264", size |-> 1280, ten_bit |-> FALSE]
        ELSE IF name = <<"b", ".", "m", "k", "v">>
          THEN [codec |-> "hevc", size |-> 3840, ten_bit |-> TRUE]
        ELSE [codec |-> "hevc", size |-> 3840, ten_bit |-> FALSE]

Bucket(path) ==
    LET p == Probe(path)
    IN  IF p.codec = "h264" /\ p.size <= 1920 THEN "safe"
        ELSE IF p.codec = "hevc" /\ p.size <= 1920 /\ ~p.ten_bit THEN "safe"
        ELSE IF p.codec = "hevc" /\ p.size > 1920 /\ ~p.ten_bit THEN "medium"
        ELSE IF p.codec = "hevc" /\ p.size > 1920 /\ p.ten_bit THEN "risky"
        ELSE "safe"

(***************************************************************************)
(* The claims.                                                             *)
(***************************************************************************)

\* C1: once a STOP key-down has been handled and until the next START is,
\* the controller holds no process and auto-restart is clear, and no run of
\* _check_playback_exit auto-advances, wherever in the loop iteration the
\* player's exit falls.
C1_StopClearsAutoRestart ==
    /\ stopped => (~auto_restart /\ mpv_process = 0)
    /\ fx.advance => ~stopped

\* C1 witness: a STOP was handled, the player that had been started has
\* exited, and _check_playback_exit has run since without starting another.
C1_Witness ==
    /\ stopped
    /\ fx.op = "check"
    /\ last_played # None
    /\ \A p \in Pids : procs[p] = "free"

\* C2 (as claimed): at every moment at most one player process is alive.
C2_AtMostOneAlive == Cardinality({p \in Pids : procs[p] = "alive"}) <= 1

\* C3: when start_random_video has run (for a START key-down, or for an
\* auto-advance) and the candidate list is empty, the controller is IDLE:
\* nothing was spawned, no handle is held, auto-restart is clear and no
\* exception was raised.
C3_NoCandidatesIdle ==
    ((fx.op = "START" \/ fx.advance) /\ video_candidates = <<>>)
      => (mpv_process = 0 /\ ~auto_restart /\ fx.spawned = 0 /\ ~fx.raised)

\* C3 witness: a START that came while a player was held (it was signalled)
\* and found no candidate.
C3_Witness ==
    /\ fx.op = "START"
    /\ video_candidates = <<>>
    /\ fx.signalled # <<>>

\* C4: every spawn whose candidate list holds at least two distinct paths,
\* in a controller that has played before, plays a file other than the one
\* played last.
C4_NoImmediateRepeat ==
    [][ (fx'.spawned # 0 /\ last_played # None
           /\ Cardinality(Range(video_candidates')) >= 2)
          => last_played' # last_played ]_vars

\* C4 witness: an auto-advance (so a file was played before) that spawned
\* from a list of at least two distinct paths.
C4_Witness ==
    /\ fx.advance
    /\ fx.spawned # 0
    /\ Cardinality(Range(video_candidates)) >= 2

\* C5: the auto-advance step calls no refresh_candidates (so no mount
\* discovery, auto-mount or scan) and leaves the candidate list and the
\* mount table as they were.
C5_AdvanceWithoutRescan ==
    [][ fx'.advance
          => (~fx'.rescanned /\ video_candidates' = video_candidates /\ mtab' = mtab) ]_vars

\* C5 witness: an auto-advance that spawned from the stored list although
\* the partitions it was scanned from are no longer mounted.
C5_Witness ==
    /\ fx.advance
    /\ fx.spawned # 0
    /\ mtab = <<>>

\* C6: no process is sent SIGTERM more than once, and after stop_playback
\* has run (for a STOP key-down, or in run's finally clause) no handle is
\* held, auto-restart is clear, at most one signal was sent in the step and
\* the step raised nothing.
C6_StopIdempotent ==
    /\ \A p \in Pids : sigterms[p] <= 1
    /\ fx.op \in {"STOP", "interrupt"}
         => (mpv_process = 0 /\ ~auto_restart /\ ~fx.raised /\ Len(fx.signalled) <= 1)

\* C6 witness: a STOP handled while the handle's process had already
\* exited, getpgid raising ProcessLookupError.
C6_Witness ==
    /\ fx.op = "STOP"
    /\ fx.lookup_failed

\* C7: when the loop is left, before the next controller is made, the old
\* controller holds no process and its auto-restart is clear; the next
\* controller starts IDLE with auto-restart clear, no last-played file and
\* no candidates; and every process that is alive and not held by the
\* controller has been sent SIGTERM.
C7_RestartReleasesPlayer ==
    /\ pc = "backoff" => (mpv_process = 0 /\ ~auto_restart)
    /\ pc = "startup" => (mpv_process = 0 /\ ~auto_restart /\ last_played = None
                            /\ video_candidates = <<>>)
    /\ \A p \in Pids : (procs[p] = "alive" /\ p # mpv_process) => sigterms[p] >= 1

\* C7 witness: an exception left the loop while a player was held (the
\* finally clause signalled it) and main is about to make the next
\* controller while that player is still alive.
C7_Witness ==
    /\ pc = "backoff"
    /\ fx.op = "interrupt"
    /\ fx.signalled # <<>>
    /\ \E p \in Pids : procs[p] = "alive"

\* the sources with a line that passes the filters, and their mount points
AcceptedSources == {mtab[i].src : i \in {j \in 1..Len(mtab) : AcceptedLine(mtab, mtab[j])}}

AcceptedPathsOf(source) ==
    {mtab[i].mp : i \in {j \in 1..Len(mtab) : AcceptedLine(mtab, mtab[j]) /\ mtab[j].src = source}}

\* the mount point the claim names for a source
ExpectedMount(source) ==
    LET A == AcceptedPathsOf(source)
    IN  IF PREFERRED_USB_MOUNT_POINT \in A THEN PREFERRED_USB_MOUNT_POINT
        ELSE CHOOSE p \in A : \A q \in A : q = p \/ PathLess(p, q)

\* C8: the list mount discovery returns holds exactly one mount point per
\* source device with an accepted mount: the preferred path when the device
\* is mounted there, otherwise the first of its accepted mount paths in the
\* order of paths (component by component).
C8_OneMountPerSource ==
    pc = "discovered" =>
      /\ Len(mounts) = Cardinality(AcceptedSources)
      /\ \A q \in Range(mounts) \cup {ExpectedMount(src) : src \in AcceptedSources} :
            Cardinality({i \in 1..Len(mounts) : mounts[i] = q})
              = Cardinality({src \in AcceptedSources : ExpectedMount(src) = q})

\* C8 witness: discovery has run on a table in which a device is mounted
\* at two accepted paths, neither the preferred one, and returned one mount.
C8_Witness ==
    /\ pc = "discovered"
    /\ \E src \in AcceptedSources :
          /\ Cardinality(AcceptedPathsOf(src)) >= 2
          /\ PREFERRED_USB_MOUNT_POINT \notin AcceptedPathsOf(src)
    /\ Len(mounts) = 1

\* a connector's status file reports "connected"
ReportsConnected(i) ==
    LET file == status[HDMI_STATUS_TO_AUDIO_DEVICE[i].path]
    IN  file.readable /\ Lower(Strip(file.text)) = CONNECTED

\* C9: a non-blank AUDIO_DEVICE is passed as the audio device; otherwise
\* the sink of the first connector, in the table's order, whose status file
\* is readable and reports connected; otherwise no audio argument.
C9_AudioRouting ==
    pc = "resolved" =>
      LET N == Len(HDMI_STATUS_TO_AUDIO_DEVICE)
          connected == {i \in 1..N : ReportsConnected(i)}
      IN  IF Strip(audio_env) # <<>> THEN audio_arg = <<Strip(audio_env)>>
          ELSE IF connected = {} THEN audio_arg = <<>>
          ELSE \E i \in connected :
                  /\ \A j \in connected : i <= j
                  /\ audio_arg = <<HDMI_STATUS_TO_AUDIO_DEVICE[i].audio_device>>

\* C9 witness: no override; the first connector's file is unreadable, the
\* second reports disconnected, the third and fourth connected: the third's
\* sink was passed.
C9_Witness ==
    /\ pc = "resolved"
    /\ Strip(audio_env) = <<>>
    /\ ~status["card1-HDMI-A-1"].readable
    /\ ~ReportsConnected(2)
    /\ ReportsConnected(3)
    /\ ReportsConnected(4)
    /\ audio_arg = <<VC4HDMI0>>

\* C10 (as claimed): a spawn plays a risky file only when the candidate
\* list holds no safe and no medium file.
C10_RiskyOnlyAsLastResort ==
    (fx.spawned # 0 /\ Bucket(last_played) = "risky")
      => \A v \in Range(video_candidates) : Bucket(v) = "risky"

\* C11 (as claimed): no partition is mounted onto a directory that is at
\* that moment the mount point of another partition.  The mount table is in
\* mount order, so a line after another with the same mount point and
\* another source was mounted on top of it.
C11_NoMountCollision ==
    \A i, j \in 1..Len(mtab) :
        (i < j /\ mtab[i].mp = mtab[j].mp) => mtab[i].src = mtab[j].src

\* a path equals the root or lies below it
IsUnder(path, root) ==
    /\ Len(path) >= Len(root)
    /\ SubSeq(path, 1, Len(root)) = root

\* C12 (as claimed): every mount point mount discovery returns is a scan
\* root or a descendant of one.
C12_MountsUnderScanRoots ==
    pc = "discovered" =>
      \A i \in 1..Len(mounts) :
          \E r \in 1..Len(USB_SCAN_ROOTS) : IsUnder(mounts[i], USB_SCAN_ROOTS[r])

\* C13: one refresh_candidates call makes one scan, or two; it makes the
\* second (after one more auto-mount attempt and discovery) exactly when
\* the first scan returned no candidate; it makes at most two auto-mount
\* attempts; and when the first scan found a candidate, that scan's list is
\* the result.
C13_OneRetry ==
    pc = "refreshed" =>
      LET r == last_refresh
      IN  /\ r.scans = Len(r.trace)
          /\ r.scans \in {1, 2}
          /\ r.automounts <= 2
          /\ r.scans = 2 <=> r.trace[1].candidates = <<>>
          /\ r.trace[1].candidates # <<>>
               => (r.automounts <= 1 /\ video_candidates = r.trace[1].candidates)

\* C13 witness: a refresh that auto-mounted because discovery found no
\* mount, scanned without result, retried, and found candidates in the
\* second scan.
C13_Witness ==
    /\ pc = "refreshed"
    /\ last_refresh.scans = 2
    /\ last_refresh.automounts = 2
    /\ video_candidates # <<>>

\* the deadline comparisons that passed in one scan: one per mount whose
\* turn came and one per directory opened
Passes(scan) == Len(scan.started) + Len(scan.opened)

\* C14: over the one or two scans of a refresh, no more mounts are started
\* and directories opened than comparisons with the one deadline can pass,
\* the retry scan going on from where the first scan left the clock; the
\* refresh stores what its last scan collected, and that holds every video
\* of every directory the scan opened.
C14_SharedDeadline ==
    pc = "refreshed" =>
      LET t    == last_refresh.trace
          last == t[Len(t)]
      IN  /\ Passes(t[1]) + (IF Len(t) = 2 THEN Passes(t[2]) ELSE 0) <= t[1].given
          /\ video_candidates = last.candidates
          /\ \A i \in 1..Len(last.opened) :
                LET o == last.opened[i]
                IN  Range(EntryVideos(o.dir, Scandir(mtab, o.mount, o.dir)))
                      \subseteq Range(video_candidates)

\* C14 witness: a refresh whose scan collected candidates and then found
\* the deadline reached before the turn of one of the mounts came.
C14_Witness ==
    /\ pc = "refreshed"
    /\ Len(last_refresh.trace) = 1
    /\ video_candidates # <<>>
    /\ last_refresh.trace[1].budget = 0
    /\ Len(last_refresh.trace[1].started) < Len(_discover_usb_mounts(mtab))

\* C15: a step in which device.read() fails stays in the loop and goes on
\* to the player-exit check of the same iteration, replaces the device list
\* by what a full discovery of the input devices returns, raises nothing,
\* and leaves process handle, auto-restart, last-played file and candidate
\* list as they were.
C15_ReadFailureContained ==
    [][ fx'.op = "read-failed"
          => /\ pc' = "check"
             /\ ~fx'.raised
             /\ keyboards' = _open_keyboard_devices(attached)
             /\ mpv_process' = mpv_process
             /\ auto_restart' = auto_restart
             /\ last_played' = last_played
             /\ video_candidates' = video_candidates ]_vars

\* C15 witness: a read failed while a player was held; the discovery found
\* the other keyboard and the exit check is next.
C15_Witness ==
    /\ fx.op = "read-failed"
    /\ mpv_process # 0
    /\ keyboards # <<>>
    /\ pc = "check"

\* C16: an event that is not a key-down of the START or the STOP key leaves
\* process handle, auto-restart, last-played file, candidate list, the
\* processes and the mount table unchanged; no spawn, no signal, no rescan.
C16_OnlyKeyDownActs ==
    [][ fx'.op = "ignored"
          => /\ mpv_process' = mpv_process
             /\ auto_restart' = auto_restart
             /\ last_played' = last_played
             /\ video_candidates' = video_candidates
             /\ procs' = procs
             /\ sigterms' = sigterms
             /\ mtab' = mtab
             /\ fx'.spawned = 0
             /\ fx'.signalled = <<>>
             /\ ~fx'.rescanned
             /\ ~fx'.raised ]_vars

\* C16 witness: an ignored event was handled while a player was held, with
\* a partition plugged in that a rescan would have mounted.
C16_Witness ==
    /\ fx.op = "ignored"
    /\ mpv_process # 0
    /\ Unmounted(mtab, devnodes) # {}

\* C17: whenever auto-restart is set the candidate list is not empty and
\* holds the last-played file; an auto-advance finds candidates and calls
\* Popen: it starts a player, which the controller then holds, unless Popen
\* raises.
C17_AutoRestartHasCandidates ==
    /\ auto_restart
         => (video_candidates # <<>> /\ last_played \in Range(video_candidates))
    /\ fx.advance
         => /\ video_candidates # <<>>
            /\ fx.spawned # 0 \/ fx.raised
            /\ fx.spawned # 0 => (mpv_process = fx.spawned /\ auto_restart)

\* C17 witness: an auto-advance that spawned from the stored list after the
\* partition the list came from was pulled.
C17_Witness ==
    /\ fx.advance
    /\ fx.spawned # 0
    /\ devnodes = {}

\* C18: the controller holds a process handle exactly when auto-restart is
\* set: at the end of every loop iteration, and at every other point
\* between two steps of the loop.
C18_HandleIffAutoRestart == (mpv_process # 0) <=> auto_restart

\* C18 witness: the end of a loop iteration after a STOP has released a
\* player that is still alive: no handle, auto-restart clear.
C18_Witness ==
    /\ pc = "select"
    /\ fx.op = "check"
    /\ stopped
    /\ mpv_process = 0
    /\ \E p \in Pids : procs[p] = "alive"

\* the processes alive
Alive(ps) == {p \in Pids : ps[p] = "alive"}

\* C19: a START key-down handled while the held player has exited and not
\* yet been polled releases that handle and, when it spawns, makes exactly
\* one process, which the controller then holds; and the exit check that
\* follows such a START does not auto-advance.
C19_StartOnExitedSpawnsOnce ==
    [][ /\ (mpv_process # 0 /\ procs[mpv_process] = "exited"
              /\ fx'.op = "START" /\ fx'.spawned # 0)
          => /\ Cardinality(Alive(procs') \ Alive(procs)) = 1
             /\ mpv_process' = fx'.spawned
             /\ procs'[mpv_process'] = "alive"
             /\ mpv_process' = mpv_process \/ procs'[mpv_process] = "free"
        /\ (fx.op = "START" /\ fx.spawned # 0 /\ fx'.op = "check")
          => (~fx'.advance /\ fx'.spawned = 0 /\ procs' = procs) ]_vars

\* C19 witness: a START found the held player exited (getpgid raised
\* ProcessLookupError), has spawned, and the exit check is next.
C19_Witness ==
    /\ fx.op = "START"
    /\ fx.lookup_failed
    /\ fx.spawned # 0
    /\ pc = "check"

\* C20 (as claimed): when the read of a ready device fails, no START or
\* STOP key-down that another ready device had received is discarded
\* unhandled.
C20_NoKeyDownLost == ~fx.discarded

\* the held player has exited, auto-restart is set and no input device is
\* open
ExitPendingWithoutKeyboard ==
    /\ keyboards = <<>>
    /\ mpv_process # 0
    /\ procs[mpv_process] = "exited"
    /\ auto_restart

\* C21: an iteration that finds no input device open raises nothing, looks
\* for devices again, leaves the playback state alone and goes on to the
\* exit check; so, in the loop with no device open, a player's exit with
\* auto-restart set is followed by an auto-advance, and a device that is
\* plugged in is opened unless it is pulled again first (in both cases:
\* unless an exception leaves the loop first).
C21_NoKeyboardNoStall ==
    /\ [][ fx'.op = "retry"
             => /\ pc' = "check"
                /\ ~fx'.raised
                /\ keyboards' = _open_keyboard_devices(attached)
                /\ mpv_process' = mpv_process
                /\ auto_restart' = auto_restart
                /\ last_played' = last_played
                /\ video_candidates' = video_candidates ]_vars
    /\ ExitPendingWithoutKeyboard ~> (fx.advance \/ pc = "backoff")
    /\ (pc \in {"select", "check"} /\ keyboards = <<>> /\ attached # {})
         ~> (keyboards # <<>> \/ attached = {} \/ pc = "backoff")

\* C21 witness: with no input device open and none plugged in, the exit
\* check has auto-advanced and spawned the next player.
C21_Witness ==
    /\ keyboards = <<>>
    /\ attached = {}
    /\ fx.advance
    /\ fx.spawned # 0

====
